---- MODULE Spec2Model ----
(***************************************************************************)
(* Model of the modularity crate: residue values (ModularInt), the Barrett *)
(* context and the Montgomery context, for an unsigned machine integer of  *)
(* W bits whose double-width type has 2*W bits and whose signed type of    *)
(* the same width is two's complement.  The crate instantiates W = 64      *)
(* (u64 / u128 / i64) and W = 32 (u32 / u64); the model scales W down and  *)
(* keeps every wrap, truncation and cast of the code at that width.        *)
(***************************************************************************)
EXTENDS Integers, Sequences, FiniteSets, TLC

VARIABLES x, y, out, overflow_checks

vars == <<x, y, out, overflow_checks>>

\* Width in bits of the native unsigned type (u64 in the crate).
W == 3

\* R = 2^W: the number of values of the native type.
R == 2 ^ W

\* Number of values of the double-width type (u128 in the crate).
RR == R * R

\* Largest value of the native unsigned type (u64::MAX).
UMax == R - 1

\* Smallest and largest value of the signed type of the same width (i64).
IMin == -(R \div 2)

IMax == (R \div 2) - 1

Native == 0 .. UMax

----------------------------------------------------------------------------
(* Machine arithmetic.                                                     *)

\* A machine operation either yields a value or panics on overflow.
Val(v) == [ok |-> TRUE, v |-> v]

Panic == [ok |-> FALSE, v |-> 0]

\* `v as u64` for a signed or wider v: keep the low W bits.
AsUnsigned(v) == v % R

\* `v as i64` for an unsigned v: reinterpret the W bits as two's complement.
AsSigned(v) == IF v % R > IMax THEN (v % R) - R ELSE v % R

\* Result of an unsigned W-bit +, -, * whose mathematical value is n: a build
\* with overflow checks panics when n does not fit, a build without them wraps.
UArith(oc, n) == IF n >= 0 /\ n <= UMax THEN Val(n)
                 ELSE IF oc THEN Panic ELSE Val(n % R)

\* The same for the double-width unsigned type.
UArithWide(oc, n) == IF n >= 0 /\ n < RR THEN Val(n)
                     ELSE IF oc THEN Panic ELSE Val(n % RR)

\* The same for the signed W-bit type.
IArith(oc, n) == IF n >= IMin /\ n <= IMax THEN Val(n)
                 ELSE IF oc THEN Panic ELSE Val(AsSigned(n % R))

Abs(n) == IF n < 0 THEN -n ELSE n

\* Signed division truncates toward zero; MIN / -1 panics in every build.
IDiv(a, b) == IF a = IMin /\ b = -1 THEN Panic
              ELSE Val((IF (a < 0) = (b < 0) THEN 1 ELSE -1) * (Abs(a) \div Abs(b)))

----------------------------------------------------------------------------
(* Residue values.                                                         *)

\* The outcome of a public operation: a residue, or the panic that ended it.
Ok(mi) == [status |-> "ok", val |-> <<mi>>]

Err(kind) == [status |-> kind, val |-> <<>>]

\* reduce with the reduction left out.
reduce_skipped(self) == self

reduce(self) == IF self.value >= self.modulus
                THEN [self EXCEPT !.value = self.value % self.modulus]
                ELSE self

\* new that stores the value without calling reduce.
ModularInt_new_unreduced(value, modulus) ==
    IF ~(modulus > 0) THEN Err("ZeroModulus")
    ELSE Ok([value |-> value, modulus |-> modulus])

ModularInt_new(value, modulus) ==
    IF ~(modulus > 0) THEN Err("ZeroModulus")
    ELSE Ok(reduce([value |-> value, modulus |-> modulus]))

add_mod(self, other) ==
    IF self.modulus # other.modulus THEN Err("ModulusMismatch")
    ELSE LET sum == (self.value + other.value) % R
         IN  IF sum >= self.modulus \/ sum < self.value
             THEN ModularInt_new(sum % self.modulus, self.modulus)
             ELSE ModularInt_new(sum, self.modulus)

\* sub_mod that subtracts without looking at which operand is larger.
sub_mod_unordered(oc, self, other) ==
    IF self.modulus # other.modulus THEN Err("ModulusMismatch")
    ELSE LET d == UArith(oc, self.value - other.value)
         IN  IF d.ok THEN ModularInt_new(d.v, self.modulus) ELSE Err("Overflow")

sub_mod(oc, self, other) ==
    IF self.modulus # other.modulus THEN Err("ModulusMismatch")
    ELSE IF self.value >= other.value
         THEN LET d == UArith(oc, self.value - other.value)
              IN  IF d.ok THEN ModularInt_new(d.v, self.modulus) ELSE Err("Overflow")
         ELSE LET d == UArith(oc, other.value - self.value)
                  e == UArith(oc, self.modulus - d.v)
              IN  IF d.ok /\ e.ok THEN ModularInt_new(e.v, self.modulus)
                  ELSE Err("Overflow")

\* mul_mod whose product is computed in the native width.
mul_mod_native_product(self, other) ==
    IF self.modulus # other.modulus THEN Err("ModulusMismatch")
    ELSE ModularInt_new(((self.value * other.value) % R) % self.modulus, self.modulus)

mul_mod(self, other) ==
    IF self.modulus # other.modulus THEN Err("ModulusMismatch")
    ELSE ModularInt_new(((self.value * other.value) % self.modulus) % R, self.modulus)

\* The loop of pow_mod with the base squared before it is multiplied in.
RECURSIVE pow_loop_square_first(_, _, _, _)
pow_loop_square_first(base, result, exp, iters) ==
    IF exp > 0
    THEN pow_loop_square_first(
             mul_mod(base, base).val[1],
             IF exp % 2 = 1 THEN mul_mod(result, mul_mod(base, base).val[1]).val[1]
             ELSE result,
             exp \div 2,
             iters + 1)
    ELSE [result |-> result, iters |-> iters]

\* The loop of pow_mod with the bit test inverted.
RECURSIVE pow_loop_clear_bits(_, _, _, _)
pow_loop_clear_bits(base, result, exp, iters) ==
    IF exp > 0
    THEN pow_loop_clear_bits(
             mul_mod(base, base).val[1],
             IF exp % 2 = 0 THEN mul_mod(result, base).val[1] ELSE result,
             exp \div 2,
             iters + 1)
    ELSE [result |-> result, iters |-> iters]

\* The while loop of pow_mod; iters counts the iterations taken so far.
RECURSIVE pow_loop(_, _, _, _)
pow_loop(base, result, exp, iters) ==
    IF exp > 0
    THEN pow_loop(mul_mod(base, base).val[1],
                  IF exp % 2 = 1 THEN mul_mod(result, base).val[1] ELSE result,
                  exp \div 2,
                  iters + 1)
    ELSE [result |-> result, iters |-> iters]

pow_mod(self, exponent) ==
    IF exponent = 0 THEN ModularInt_new(1, self.modulus)
    ELSE Ok(pow_loop(self, ModularInt_new(1, self.modulus).val[1], exponent, 0).result)

\* Iterations of the loop of pow_mod (none on the early return).
pow_iterations(self, exponent) ==
    IF exponent = 0 THEN 0
    ELSE pow_loop(self, ModularInt_new(1, self.modulus).val[1], exponent, 0).iters

RECURSIVE gcd(_, _)
gcd(a, b) == IF b = 0 THEN a ELSE gcd(b, a % b)

\* One `temp - quotient * v` of the extended Euclidean loop, in the signed type.
euclid_step(oc, temp, quotient, v) ==
    LET p == IArith(oc, quotient * v)
        d == IArith(oc, temp - p.v)
    IN  IF p.ok /\ d.ok THEN d ELSE Panic

\* The while loop of inverse_mod over (r, old_r), (s, old_s), (t, old_t).
RECURSIVE euclid_loop(_, _, _, _, _, _, _)
euclid_loop(oc, r, old_r, s, old_s, t, old_t) ==
    IF r # 0
    THEN LET quotient == IDiv(old_r, r)
             r2 == euclid_step(oc, old_r, quotient.v, r)
             s2 == euclid_step(oc, old_s, quotient.v, s)
             t2 == euclid_step(oc, old_t, quotient.v, t)
         IN  IF ~quotient.ok \/ ~r2.ok \/ ~s2.ok \/ ~t2.ok
             THEN [ok |-> FALSE, old_r |-> 0, old_s |-> 0]
             ELSE euclid_loop(oc, r2.v, r, s2.v, s, t2.v, t)
    ELSE [ok |-> TRUE, old_r |-> old_r, old_s |-> old_s]

inverse_mod(oc, self) ==
    IF self.value = 0 THEN Err("NotInvertible")
    ELSE IF gcd(self.value, self.modulus) # 1 THEN Err("NotInvertible")
    ELSE LET e == euclid_loop(oc, AsSigned(self.modulus), AsSigned(self.value),
                              0, 1, 1, 0)
         IN  IF ~e.ok THEN Err("Overflow")
             ELSE IF e.old_r # 1 THEN Err("NotInvertible")
             ELSE LET result == IF e.old_s < 0
                                THEN IArith(oc, e.old_s + AsSigned(self.modulus))
                                ELSE Val(e.old_s)
                  IN  IF ~result.ok THEN Err("Overflow")
                      ELSE ModularInt_new(AsUnsigned(result.v), self.modulus)

----------------------------------------------------------------------------
(* Barrett reduction context.                                              *)

\* The outcome of constructing a context: the context, or the panic.
OkCtx(c) == [status |-> "ok", ctx |-> <<c>>]

ErrCtx(kind) == [status |-> kind, ctx |-> <<>>]

BarrettContext_new(modulus) ==
    IF ~(modulus > 0) THEN ErrCtx("ZeroModulus")
    ELSE LET mu == IF modulus = 1 THEN 0
                   ELSE (((RR - 1) \div modulus) + 1) % R
         IN  OkCtx([modulus |-> modulus, mu |-> mu])

\* The quotient estimate q of reduce_u64's general path.
reduce_u64_q(ctx, value) == ((value * ctx.mu) \div R) % R

\* The remainder r of reduce_u64's general path, before the final correction.
reduce_u64_r(ctx, value) ==
    (value - ((reduce_u64_q(ctx, value) * ctx.modulus) % R)) % R

reduce_u64(oc, ctx, value) ==
    IF value < ctx.modulus THEN Val(value)
    ELSE LET twice == UArith(oc, ctx.modulus * 2)
         IN  IF ~twice.ok THEN Panic
             ELSE IF value < twice.v THEN UArith(oc, value - ctx.modulus)
             ELSE LET r == reduce_u64_r(ctx, value)
                  IN  IF r >= ctx.modulus THEN UArith(oc, r - ctx.modulus)
                      ELSE Val(r)

mul_mod_u64(ctx, a, b) ==
    LET product == a * b
    IN  IF product < ctx.modulus THEN product % R
        ELSE LET product_hi == (product \div R) % R
                 product_lo == product % R
                 q_hi       == ((product_hi * ctx.mu) \div R) % R
                 q_lo_part1 == ((product_lo * ctx.mu) \div R) % R
                 qm         == (((q_hi * ctx.modulus) % R)
                                + ((q_lo_part1 * ctx.modulus) % R)) % R
                 r          == (product_lo - qm) % R
             IN  IF r >= ctx.modulus THEN (r - ctx.modulus) % R ELSE r

barrett_reduce(oc, self, ctx) ==
    IF self.modulus # ctx.modulus THEN Err("ModulusMismatch")
    ELSE LET r == reduce_u64(oc, ctx, self.value)
         IN  IF ~r.ok THEN Err("Overflow") ELSE ModularInt_new(r.v, self.modulus)

\* barrett_mul that checks only self against the context.
barrett_mul_other_unchecked(self, other, ctx) ==
    IF self.modulus # ctx.modulus THEN Err("ModulusMismatch")
    ELSE ModularInt_new(mul_mod_u64(ctx, self.value, other.value), self.modulus)

barrett_mul(self, other, ctx) ==
    IF self.modulus # ctx.modulus THEN Err("ModulusMismatch")
    ELSE IF other.modulus # ctx.modulus THEN Err("ModulusMismatch")
    ELSE ModularInt_new(mul_mod_u64(ctx, self.value, other.value), self.modulus)

----------------------------------------------------------------------------
(* Montgomery reduction context.                                           *)

\* The for loop of compute_r_squared: n more rounds of "double and reduce".
RECURSIVE r_squared_loop(_, _, _)
r_squared_loop(result, modulus, n) ==
    IF n = 0 THEN result
    ELSE r_squared_loop(((result * 2) % RR) % modulus, modulus, n - 1)

compute_r_squared(modulus) == r_squared_loop(1, modulus, 2 * W) % R

\* The while loop of compute_n_prime over (t, new_t), (r, new_r).
RECURSIVE n_prime_loop(_, _, _, _, _)
n_prime_loop(oc, t, r, new_t, new_r) ==
    IF new_r # 0
    THEN LET q  == r \div new_r
             p  == UArith(oc, q * new_r)
             nr == UArith(oc, r - p.v)
             nt == (t - ((q * new_t) % R)) % R
         IN  IF ~p.ok \/ ~nr.ok THEN Panic
             ELSE n_prime_loop(oc, new_t, new_r, nt, nr.v)
    ELSE Val(t)

compute_n_prime(oc, modulus) ==
    LET l == n_prime_loop(oc, 0, 0, 1, modulus)
    IN  IF l.ok THEN Val((-l.v) % R) ELSE Panic

MontgomeryContext_new(oc, modulus) ==
    IF modulus % 2 # 1 THEN ErrCtx("EvenModulus")
    ELSE IF ~(modulus > 0) THEN ErrCtx("ZeroModulus")
    ELSE LET n_prime == compute_n_prime(oc, modulus)
         IN  IF ~n_prime.ok THEN ErrCtx("Overflow")
             ELSE OkCtx([modulus   |-> modulus,
                         r_squared |-> compute_r_squared(modulus),
                         r_inverse |-> 1,
                         n_prime   |-> n_prime.v])

\* T + m * n of montgomery_reduction, before it is stored in the double width
montgomery_reduction_sum(ctx, t) ==
    LET m == ((t % R) * ctx.n_prime) % R
    IN  t + m * ctx.modulus

montgomery_reduction(oc, ctx, t) ==
    LET sum == UArithWide(oc, montgomery_reduction_sum(ctx, t))
        u   == sum.v \div R
    IN  IF ~sum.ok THEN Panic
        ELSE IF u >= ctx.modulus THEN Val((u - ctx.modulus) % R)
        ELSE Val(u % R)

to_montgomery(oc, self, ctx) ==
    IF self.modulus # ctx.modulus THEN Err("ModulusMismatch")
    ELSE LET mont_value == montgomery_reduction(oc, ctx, self.value * ctx.r_squared)
         IN  IF ~mont_value.ok THEN Err("Overflow")
             ELSE ModularInt_new(mont_value.v, self.modulus)

from_montgomery(oc, self, ctx) ==
    IF self.modulus # ctx.modulus THEN Err("ModulusMismatch")
    ELSE LET regular_value == montgomery_reduction(oc, ctx, self.value)
         IN  IF ~regular_value.ok THEN Err("Overflow")
             ELSE ModularInt_new(regular_value.v, self.modulus)

montgomery_mul(oc, self, other, ctx) ==
    IF self.modulus # ctx.modulus THEN Err("ModulusMismatch")
    ELSE IF other.modulus # ctx.modulus THEN Err("ModulusMismatch")
    ELSE LET result == montgomery_reduction(oc, ctx, self.value * other.value)
         IN  IF ~result.ok THEN Err("Overflow")
             ELSE ModularInt_new(result.v, self.modulus)

----------------------------------------------------------------------------
(* Hardware acceleration layer (x86_64).                                   *)

\* _mulx_u64(a, b, &mut hi): the low half is returned, the high half stored.
mulx_u64(a, b) == [hi |-> ((a * b) \div R) % R, lo |-> (a * b) % R]

\* _addcarryx_u64(c_in, a, b, &mut out): the carry-out is returned.
addcarryx_u64(c_in, a, b) ==
    [carry |-> (a + b + c_in) \div R, out |-> (a + b + c_in) % R]

\* mul_add_carry; available is what is_hardware_acceleration_available()
\* reports on the CPU the program runs on.
mul_add_carry(oc, available, a, b, c, carry) ==
    IF available
    THEN LET p   == mulx_u64(a, b)
             low == addcarryx_u64(0, p.lo, c)
             hi  == addcarryx_u64(low.carry, p.hi, carry)
         IN  [ok |-> TRUE, hi |-> hi.out, lo |-> low.out]
    ELSE LET a_b    == UArithWide(oc, a * b)
             a_b_c  == UArithWide(oc, a_b.v + c)
             result == UArithWide(oc, a_b_c.v + carry)
         IN  IF a_b.ok /\ a_b_c.ok /\ result.ok
             THEN [ok |-> TRUE, hi |-> (result.v \div R) % R, lo |-> result.v % R]
             ELSE [ok |-> FALSE, hi |-> 0, lo |-> 0]

\* reduce_mod that reduces the low half alone.
reduce_mod_low_half(hi, lo, modulus) == (lo % modulus) % R

reduce_mod(hi, lo, modulus) == ((hi * R + lo) % modulus) % R

\* ModularArithmeticAccelerated::mul_mod on a helper whose flag is
\* use_acceleration.
accelerated_mul_mod(oc, use_acceleration, available, a, b, modulus) ==
    IF use_acceleration
    THEN LET p == mul_add_carry(oc, available, a, b, 0, 0)
         IN  IF p.ok THEN Val(reduce_mod(p.hi, p.lo, modulus)) ELSE Panic
    ELSE Val(((a * b) % modulus) % R)

----------------------------------------------------------------------------
(* The client: it holds two residues x and y, calls one public operation   *)
(* at a time on them and may keep the residue an operation returned.  A    *)
(* context is built from its modulus in the call that uses it.  The build  *)
(* either checks arithmetic overflow (and panics on it) or wraps.          *)

\* No call has returned since the last result was kept or dropped.
NoOut == [op |-> "none", status |-> "none", val |-> <<>>, args |-> <<>>, iters |-> 0]

Called(op, res, args) ==
    [op |-> op, status |-> res.status, val |-> res.val, args |-> args, iters |-> 0]

Idle == out.op = "none"

Init ==
    /\ x = <<>>
    /\ y = <<>>
    /\ out = NoOut
    /\ overflow_checks \in BOOLEAN

\* let x = ModularInt::new(value, modulus); x stays unbound on a panic.
New(value, modulus) ==
    /\ Idle /\ x = <<>>
    /\ LET res == ModularInt_new(value, modulus)
       IN  /\ out' = Called("new", res, <<value, modulus>>)
           /\ x' = res.val
    /\ UNCHANGED <<y, overflow_checks>>

\* x goes out of scope.
ForgetX ==
    /\ Idle /\ x # <<>>
    /\ x' = <<>>
    /\ UNCHANGED <<y, out, overflow_checks>>

\* x.add_mod(&y)
AddMod ==
    /\ Idle /\ x # <<>> /\ y # <<>>
    /\ out' = Called("add_mod", add_mod(x[1], y[1]), <<>>)
    /\ UNCHANGED <<x, y, overflow_checks>>

\* x.sub_mod(&y)
SubMod ==
    /\ Idle /\ x # <<>> /\ y # <<>>
    /\ out' = Called("sub_mod", sub_mod(overflow_checks, x[1], y[1]), <<>>)
    /\ UNCHANGED <<x, y, overflow_checks>>

\* x.mul_mod(&y)
MulMod ==
    /\ Idle /\ x # <<>> /\ y # <<>>
    /\ out' = Called("mul_mod", mul_mod(x[1], y[1]), <<>>)
    /\ UNCHANGED <<x, y, overflow_checks>>

\* x.pow_mod(exponent)
PowMod(exponent) ==
    /\ Idle /\ x # <<>>
    /\ out' = [Called("pow_mod", pow_mod(x[1], exponent), <<exponent>>)
                  EXCEPT !.iters = pow_iterations(x[1], exponent)]
    /\ UNCHANGED <<x, y, overflow_checks>>

\* x.inverse_mod()
InverseMod ==
    /\ Idle /\ x # <<>>
    /\ out' = Called("inverse_mod", inverse_mod(overflow_checks, x[1]), <<>>)
    /\ UNCHANGED <<x, y, overflow_checks>>

\* x.barrett_reduce(&BarrettContext::new(modulus))
BarrettReduce(modulus) ==
    /\ Idle /\ x # <<>>
    /\ LET c == BarrettContext_new(modulus)
       IN  /\ c.status = "ok"
           /\ out' = Called("barrett_reduce",
                            barrett_reduce(overflow_checks, x[1], c.ctx[1]),
                            <<modulus>>)
    /\ UNCHANGED <<x, y, overflow_checks>>

\* x.barrett_mul(&y, &BarrettContext::new(modulus))
BarrettMul(modulus) ==
    /\ Idle /\ x # <<>> /\ y # <<>>
    /\ LET c == BarrettContext_new(modulus)
       IN  /\ c.status = "ok"
           /\ out' = Called("barrett_mul", barrett_mul(x[1], y[1], c.ctx[1]),
                            <<modulus>>)
    /\ UNCHANGED <<x, y, overflow_checks>>

\* x.to_montgomery(&MontgomeryContext::new(modulus))
ToMontgomery(modulus) ==
    /\ Idle /\ x # <<>>
    /\ LET c == MontgomeryContext_new(overflow_checks, modulus)
       IN  /\ c.status = "ok"
           /\ out' = Called("to_montgomery",
                            to_montgomery(overflow_checks, x[1], c.ctx[1]),
                            <<modulus>>)
    /\ UNCHANGED <<x, y, overflow_checks>>

\* x.from_montgomery(&MontgomeryContext::new(modulus))
FromMontgomery(modulus) ==
    /\ Idle /\ x # <<>>
    /\ LET c == MontgomeryContext_new(overflow_checks, modulus)
       IN  /\ c.status = "ok"
           /\ out' = Called("from_montgomery",
                            from_montgomery(overflow_checks, x[1], c.ctx[1]),
                            <<modulus>>)
    /\ UNCHANGED <<x, y, overflow_checks>>

\* x.montgomery_mul(&y, &MontgomeryContext::new(modulus))
MontgomeryMul(modulus) ==
    /\ Idle /\ x # <<>> /\ y # <<>>
    /\ LET c == MontgomeryContext_new(overflow_checks, modulus)
       IN  /\ c.status = "ok"
           /\ out' = Called("montgomery_mul",
                            montgomery_mul(overflow_checks, x[1], y[1], c.ctx[1]),
                            <<modulus>>)
    /\ UNCHANGED <<x, y, overflow_checks>>

\* let x = <the residue the last call returned>
KeepX ==
    /\ out.status = "ok"
    /\ x' = out.val
    /\ out' = NoOut
    /\ UNCHANGED <<y, overflow_checks>>

\* let y = <the residue the last call returned>
KeepY ==
    /\ out.status = "ok"
    /\ y' = out.val
    /\ out' = NoOut
    /\ UNCHANGED <<x, overflow_checks>>

\* The result (or the panic, caught by the caller) is dropped.
Drop ==
    /\ ~Idle
    /\ out' = NoOut
    /\ UNCHANGED <<x, y, overflow_checks>>

Next ==
    \/ \E value \in Native, modulus \in Native : New(value, modulus)
    \/ AddMod
    \/ SubMod
    \/ MulMod
    \/ \E exponent \in Native : PowMod(exponent)
    \/ InverseMod
    \/ \E modulus \in Native : BarrettReduce(modulus)
    \/ \E modulus \in Native : BarrettMul(modulus)
    \/ \E modulus \in Native : ToMontgomery(modulus)
    \/ \E modulus \in Native : FromMontgomery(modulus)
    \/ \E modulus \in Native : MontgomeryMul(modulus)
    \/ ForgetX
    \/ KeepX
    \/ KeepY
    \/ Drop

Spec == Init /\ [][Next]_vars

----------------------------------------------------------------------------
(* The client of the contexts and of the acceleration layer: it calls one  *)
(* operation on raw integers at a time, looks at what the call returned    *)
(* and drops it; it holds no residue.                                      *)

\* A call on raw integers returned: its arguments and the integers returned.
Returned(op, status, args, raw) ==
    [op |-> op, status |-> status, args |-> args, raw |-> raw]

StatusOf(r) == IF r.ok THEN "ok" ELSE "Overflow"

\* BarrettContext::new(modulus)
BarrettContextNew ==
    /\ Idle
    /\ \E modulus \in Native :
          /\ LET c == BarrettContext_new(modulus)
             IN  out' = Returned("BarrettContext::new", c.status, <<modulus>>,
                                 IF c.status = "ok" THEN <<c.ctx[1].mu>> ELSE <<>>)
    /\ UNCHANGED <<x, y, overflow_checks>>

\* BarrettContext::new(modulus).reduce_u64(value)
ReduceU64 ==
    /\ Idle
    /\ \E modulus \in Native, value \in Native :
          /\ LET c == BarrettContext_new(modulus)
             IN  /\ c.status = "ok"
                 /\ LET r == reduce_u64(overflow_checks, c.ctx[1], value)
                    IN  out' = Returned("reduce_u64", StatusOf(r), <<modulus, value>>,
                                        <<r.v, reduce_u64_q(c.ctx[1], value),
                                          reduce_u64_r(c.ctx[1], value)>>)
    /\ UNCHANGED <<x, y, overflow_checks>>

\* ctx.mul_mod_u64(a, b) and new(a, m).barrett_mul(&new(b, m), &ctx)
MulModU64 ==
    /\ Idle
    /\ \E modulus \in Native, a \in Native, b \in Native :
          /\ a < modulus /\ b < modulus
          /\ LET c == BarrettContext_new(modulus)
             IN  /\ c.status = "ok"
                 /\ out' = Returned("mul_mod_u64", "ok", <<modulus, a, b>>,
                                    <<mul_mod_u64(c.ctx[1], a, b),
                                      barrett_mul(ModularInt_new(a, modulus).val[1],
                                                  ModularInt_new(b, modulus).val[1],
                                                  c.ctx[1]).val[1].value>>)
    /\ UNCHANGED <<x, y, overflow_checks>>

\* MontgomeryContext::new(modulus)
MontgomeryContextNew ==
    /\ Idle
    /\ \E modulus \in Native :
          /\ LET c == MontgomeryContext_new(overflow_checks, modulus)
             IN  out' = Returned("MontgomeryContext::new", c.status, <<modulus>>,
                                 IF c.status = "ok"
                                 THEN <<c.ctx[1].r_squared, c.ctx[1].n_prime>> ELSE <<>>)
    /\ UNCHANGED <<x, y, overflow_checks>>

\* MontgomeryContext::new(modulus).montgomery_reduction(a * b), a, b < modulus
MontgomeryReduction ==
    /\ Idle
    /\ \E modulus \in Native, a \in Native, b \in Native :
          /\ a < modulus /\ b < modulus
          /\ LET c == MontgomeryContext_new(overflow_checks, modulus)
             IN  /\ c.status = "ok"
                 /\ LET u == montgomery_reduction(overflow_checks, c.ctx[1], a * b)
                    IN  out' = Returned("montgomery_reduction", StatusOf(u),
                                        <<modulus, a, b>>,
                                        <<u.v, montgomery_reduction_sum(c.ctx[1],
                                                                        a * b)>>)
    /\ UNCHANGED <<x, y, overflow_checks>>

\* test_montgomery_multiplication_u64 on (modulus, a, b): both operands to
\* Montgomery form, montgomery_mul, and the product back from Montgomery form.
montgomery_round_trip(oc, modulus, a, b) ==
    LET ctx    == MontgomeryContext_new(oc, modulus).ctx[1]
        a_mont == to_montgomery(oc, ModularInt_new(a, modulus).val[1], ctx)
        b_mont == to_montgomery(oc, ModularInt_new(b, modulus).val[1], ctx)
    IN  IF a_mont.status # "ok" THEN a_mont
        ELSE IF b_mont.status # "ok" THEN b_mont
        ELSE LET result_mont == montgomery_mul(oc, a_mont.val[1], b_mont.val[1], ctx)
             IN  IF result_mont.status # "ok" THEN result_mont
                 ELSE from_montgomery(oc, result_mont.val[1], ctx)

MontgomeryRoundTrip ==
    /\ Idle
    /\ \E modulus \in Native, a \in Native, b \in Native :
          /\ a < modulus /\ b < modulus
          /\ MontgomeryContext_new(overflow_checks, modulus).status = "ok"
          /\ LET r == montgomery_round_trip(overflow_checks, modulus, a, b)
             IN  out' = Returned("montgomery_round_trip", r.status, <<modulus, a, b>>,
                                 IF r.status = "ok" THEN <<r.val[1].value>> ELSE <<>>)
    /\ UNCHANGED <<x, y, overflow_checks>>

\* arithmetic::mul_add_carry(a, b, c, carry) on a CPU with or without BMI2/ADX
MulAddCarry ==
    /\ Idle
    /\ \E available \in BOOLEAN, a \in Native, b \in Native, c \in Native,
          carry \in Native :
          /\ LET p == mul_add_carry(overflow_checks, available, a, b, c, carry)
             IN  out' = Returned("mul_add_carry", StatusOf(p),
                                 <<a, b, c, carry, available>>, <<p.hi, p.lo>>)
    /\ UNCHANGED <<x, y, overflow_checks>>

\* ModularArithmeticAccelerated { use_acceleration }.mul_mod(a, b, modulus):
\* the result, and the result of the helper with the flag the other way.
AcceleratedMulMod ==
    /\ Idle
    /\ \E use_acceleration \in BOOLEAN, available \in BOOLEAN, a \in Native,
          b \in Native, modulus \in Native :
          /\ modulus > 0
          /\ LET r == accelerated_mul_mod(overflow_checks, use_acceleration, available,
                                          a, b, modulus)
                 o == accelerated_mul_mod(overflow_checks, ~use_acceleration, available,
                                          a, b, modulus)
             IN  out' = Returned("accelerated_mul_mod",
                                 IF r.ok /\ o.ok THEN "ok" ELSE "Overflow",
                                 <<a, b, modulus, use_acceleration, available>>,
                                 <<r.v, o.v>>)
    /\ UNCHANGED <<x, y, overflow_checks>>

NextCtx ==
    \/ BarrettContextNew
    \/ ReduceU64
    \/ MulModU64
    \/ MontgomeryContextNew
    \/ MontgomeryReduction
    \/ MontgomeryRoundTrip
    \/ MulAddCarry
    \/ AcceleratedMulMod
    \/ Drop

SpecCtx == Init /\ [][NextCtx]_vars

----------------------------------------------------------------------------
(* Reference arithmetic over unbounded integers, used to state properties. *)

\* a^e mod m by e successive multiplications.
RECURSIVE PowRef(_, _, _)
PowRef(a, e, m) == IF e = 0 THEN 1 % m ELSE (a * PowRef(a, e - 1, m)) % m

\* Number of bits of e: 0 for e = 0.
RECURSIVE BitLength(_)
BitLength(e) == IF e = 0 THEN 0 ELSE 1 + BitLength(e \div 2)

\* a and b have no common divisor above 1 (a, b not both 0).
Coprime(a, b) == \A d \in 2 .. R : ~(a % d = 0 /\ b % d = 0)

\* The residues the client holds or has just been given.
Residues == {x, y, out.val} \ {<<>>}

SameModulus == x # <<>> /\ y # <<>> /\ x[1].modulus = y[1].modulus

----------------------------------------------------------------------------
(* Properties.                                                             *)

\* C1: after any sequence of public operations every residue that exists
\* has modulus > 0 and 0 <= value < modulus.
C1_ValueInRange ==
    \A r \in Residues : r[1].modulus > 0 /\ 0 <= r[1].value /\ r[1].value < r[1].modulus

\* A Montgomery product of two kept results has been returned.
C1_Witness ==
    /\ out.op = "montgomery_mul" /\ out.status = "ok"
    /\ x # <<>> /\ y # <<>> /\ x[1].value > 0 /\ y[1].value > 0

\* C2: new(value, 0) fails with ZeroModulus and constructs nothing; for
\* modulus > 0 it returns the residue (value mod modulus, modulus), also
\* when value >= modulus.
C2_NewContract ==
    out.op = "new" =>
        LET value == out.args[1]
            modulus == out.args[2]
        IN  /\ modulus = 0 => out.status = "ZeroModulus" /\ out.val = <<>>
            /\ modulus > 0 =>
                   /\ out.status = "ok"
                   /\ out.val = <<[value |-> value % modulus, modulus |-> modulus]>>

\* new was called with a value above a non-zero modulus.
C2_Witness ==
    out.op = "new" /\ out.args[2] > 0 /\ out.args[1] > out.args[2]

\* C3: add_mod(a, b) has value (a.value + b.value) mod m over unbounded
\* integers, also when the raw W-bit addition wraps around.
C3_AddExact ==
    out.op = "add_mod" /\ SameModulus =>
        /\ out.status = "ok"
        /\ out.val[1].value = (x[1].value + y[1].value) % x[1].modulus

\* C4: sub_mod(a, b) has value (a.value - b.value) mod m; for a.value <
\* b.value it is m - (b.value - a.value), and no unsigned subtraction
\* underflows (the call does not panic in a build that checks overflow).
C4_SubExact ==
    out.op = "sub_mod" /\ SameModulus =>
        LET m == x[1].modulus
        IN  /\ out.status = "ok"
            /\ out.val[1].modulus = m
            /\ out.val[1].value = (x[1].value - y[1].value) % m
            /\ x[1].value < y[1].value =>
                   out.val[1].value = m - (y[1].value - x[1].value)

\* sub_mod was called with a.value < b.value in a build that checks overflow.
C4_Witness ==
    /\ out.op = "sub_mod" /\ SameModulus /\ overflow_checks
    /\ x[1].value < y[1].value

\* C5: mul_mod(a, b) has value (a.value * b.value) mod m of the full
\* double-width product.
C5_MulFull ==
    out.op = "mul_mod" /\ SameModulus =>
        /\ out.status = "ok"
        /\ out.val[1].modulus = x[1].modulus
        /\ out.val[1].value = (x[1].value * y[1].value) % x[1].modulus

\* mul_mod was called on a.value = b.value = m - 1 with m the largest modulus.
C5_Witness ==
    /\ out.op = "mul_mod" /\ SameModulus
    /\ x[1].modulus = UMax /\ x[1].value = UMax - 1 /\ y[1].value = UMax - 1
    /\ x[1].value * y[1].value > UMax

\* The moduli a call has to find equal differ.
Mismatch ==
    CASE out.op \in {"add_mod", "sub_mod", "mul_mod"} ->
             x[1].modulus # y[1].modulus
      [] out.op \in {"barrett_reduce", "to_montgomery", "from_montgomery"} ->
             x[1].modulus # out.args[1]
      [] out.op \in {"barrett_mul", "montgomery_mul"} ->
             x[1].modulus # out.args[1] \/ y[1].modulus # out.args[1]
      [] OTHER -> FALSE

\* C6: an operation on two modulus-carrying arguments fails with
\* ModulusMismatch, returning nothing, exactly when the moduli differ.
C6_MismatchFails ==
    out.op \in {"add_mod", "sub_mod", "mul_mod", "barrett_reduce", "barrett_mul",
                "to_montgomery", "from_montgomery", "montgomery_mul"} =>
        /\ Mismatch => out.status = "ModulusMismatch" /\ out.val = <<>>
        /\ ~Mismatch => out.status # "ModulusMismatch"

\* barrett_mul was called with self matching the context and other not.
C6_Witness ==
    /\ out.op = "barrett_mul" /\ x[1].modulus = out.args[1]
    /\ y[1].modulus # out.args[1] /\ out.status = "ModulusMismatch"

\* C7: pow_mod(a, e) has value a.value^e mod m, pow_mod(a, 0) is 1 mod m
\* for every base, and the loop runs bit-length(e) times.
C7_PowExact ==
    out.op = "pow_mod" =>
        LET e == out.args[1]
            m == x[1].modulus
        IN  /\ out.status = "ok"
            /\ out.val[1].modulus = m
            /\ out.val[1].value = PowRef(x[1].value, e, m)
            /\ e = 0 => out.val[1].value = 1 % m
            /\ out.iters = BitLength(e)

\* pow_mod was called with the largest exponent on a base above 1.
C7_Witness ==
    /\ out.op = "pow_mod" /\ out.args[1] = UMax /\ x[1].value > 1
    /\ out.iters = W

\* C8: pow_mod(a, e1 + e2) equals mul_mod(pow_mod(a, e1), pow_mod(a, e2))
\* whenever e1 + e2 fits in the native width.
C8_PowAdditive ==
    out.op = "pow_mod" =>
        \A e1 \in 0 .. out.args[1] :
            LET e2 == out.args[1] - e1
            IN  out.val = mul_mod(pow_mod(x[1], e1).val[1],
                                  pow_mod(x[1], e2).val[1]).val

\* pow_mod was called with an exponent that splits into two non-zero parts.
C8_Witness ==
    /\ out.op = "pow_mod" /\ out.args[1] >= 2 /\ x[1].value > 1
    /\ out.val[1].value > 1

\* The operand of inverse_mod is non-zero and coprime to a modulus above 1.
Invertible ==
    /\ x[1].modulus > 1 /\ x[1].value # 0
    /\ Coprime(x[1].value, x[1].modulus)

\* C9: for every modulus m > 1, also m >= 2^(W-1), and a.value # 0 coprime
\* to m, inverse_mod(a) returns a residue r with (a.value * r.value) mod m = 1.
C9_InverseExact ==
    out.op = "inverse_mod" /\ Invertible =>
        /\ out.status = "ok"
        /\ (x[1].value * out.val[1].value) % x[1].modulus = 1

\* C10: inverse_mod(a) fails with NotInvertible exactly when a.value = 0 or
\* gcd(a.value, a.modulus) # 1, and returns a result otherwise.
C10_InverseFailsIff ==
    out.op = "inverse_mod" =>
        /\ (x[1].value = 0 \/ ~Coprime(x[1].value, x[1].modulus)) =>
               out.status = "NotInvertible"
        /\ (x[1].value # 0 /\ Coprime(x[1].value, x[1].modulus)) =>
               out.status = "ok"

----------------------------------------------------------------------------
(* Properties of the contexts and of the acceleration layer.               *)

\* C11: BarrettContext::new(m).reduce_u64(value) returns value mod m for
\* every modulus m > 0 (m = 1 and m >= 2^(W-1) included) and every value.
C11_ReduceExact ==
    out.op = "reduce_u64" =>
        /\ out.status = "ok"
        /\ out.raw[1] = out.args[2] % out.args[1]

\* C12: for a, b in [0, m), mul_mod_u64(a, b) and barrett_mul on the
\* residues equal (a * b) mod m, the value of ModularInt::mul_mod.
C12_BarrettMulExact ==
    out.op = "mul_mod_u64" =>
        LET m == out.args[1]
            a == out.args[2]
            b == out.args[3]
            reference == mul_mod(ModularInt_new(a, m).val[1],
                                 ModularInt_new(b, m).val[1]).val[1].value
        IN  /\ reference = (a * b) % m
            /\ out.raw[1] = reference
            /\ out.raw[2] = reference

\* C13: for odd m and a, b in [0, m), from_montgomery(montgomery_mul(
\* to_montgomery(a), to_montgomery(b))) has the value of mul_mod(a, b).
C13_MontgomeryRoundTrip ==
    out.op = "montgomery_round_trip" =>
        LET m == out.args[1]
            a == out.args[2]
            b == out.args[3]
        IN  /\ out.status = "ok"
            /\ out.raw[1] = (a * b) % m
            /\ out.raw[1] = mul_mod(ModularInt_new(a, m).val[1],
                                    ModularInt_new(b, m).val[1]).val[1].value

\* C14: MontgomeryContext::new fails with EvenModulus for an even non-zero
\* modulus, with ZeroModulus (the failure of ModularInt::new and of
\* BarrettContext::new on 0) for modulus 0, and succeeds for an odd modulus.
C14_MontgomeryNewErrors ==
    out.op = "MontgomeryContext::new" =>
        LET m == out.args[1]
        IN  /\ (m # 0 /\ m % 2 = 0) => out.status = "EvenModulus"
            /\ m = 0 => /\ out.status = "ZeroModulus"
                        /\ out.status = ModularInt_new(0, 0).status
                        /\ out.status = BarrettContext_new(0).status
            /\ m % 2 = 1 => out.status = "ok"

\* C15: for every (a, b, c, carry) the accelerated path of mul_add_carry
\* returns the pair the fallback returns: the high and low halves of
\* a*b + c + carry.
C15_MulAddCarryAgree ==
    out.op = "mul_add_carry" =>
        LET a == out.args[1]
            b == out.args[2]
            c == out.args[3]
            carry == out.args[4]
            n == a * b + c + carry
            fallback == mul_add_carry(overflow_checks, FALSE, a, b, c, carry)
        IN  /\ out.status = "ok"
            /\ <<fallback.hi, fallback.lo>> = <<(n \div R) % R, n % R>>
            /\ out.raw = <<fallback.hi, fallback.lo>>

\* C16: for modulus > 0, ModularArithmeticAccelerated::mul_mod returns the
\* same value with use_acceleration true and false: (a * b) mod modulus of
\* the double-width product.
C16_AcceleratedAgree ==
    out.op = "accelerated_mul_mod" =>
        /\ out.status = "ok"
        /\ out.raw[1] = out.raw[2]
        /\ out.raw[1] = (out.args[1] * out.args[2]) % out.args[3]

\* The accelerated helper multiplied the two largest operands on a CPU that
\* has the instructions; the product needs the high half.
C16_Witness ==
    /\ out.op = "accelerated_mul_mod"
    /\ out.args[4] /\ out.args[5]
    /\ out.args[1] = UMax /\ out.args[2] = UMax /\ out.args[3] = UMax - 2
    /\ out.raw[1] > 0

\* C17: for every odd modulus N the stored n_prime has
\* (N * n_prime) mod R = R - 1.
C17_NPrime ==
    out.op = "MontgomeryContext::new" /\ out.status = "ok" =>
        (out.args[1] * out.raw[2]) % R = R - 1

\* C18: for every modulus m > 1 the stored mu equals floor(2^(2W) / m).
C18_MuExact ==
    out.op = "BarrettContext::new" /\ out.args[1] > 1 =>
        /\ out.status = "ok"
        /\ out.raw[1] = RR \div out.args[1]

\* C19: for odd N and t = a * b with a, b in [0, N), montgomery_reduction(t)
\* returns u with 0 <= u < N and u * R congruent to t modulo N.
C19_ReductionExact ==
    out.op = "montgomery_reduction" =>
        LET N == out.args[1]
            t == out.args[2] * out.args[3]
            u == out.raw[1]
        IN  /\ out.status = "ok"
            /\ 0 <= u /\ u < N
            /\ (u * R) % N = t % N

\* C20: in the general path of reduce_u64 (value >= 2 * modulus) the
\* estimate q is floor(value / modulus) or one below it, so r lies in
\* [0, 2 * modulus) and the value returned is below modulus.
C20_QuotientEstimate ==
    out.op = "reduce_u64" /\ out.args[2] >= 2 * out.args[1] =>
        LET m == out.args[1]
            value == out.args[2]
            q == out.raw[2]
            r == out.raw[3]
        IN  /\ q <= value \div m
            /\ q >= (value \div m) - 1
            /\ 0 <= r /\ r < 2 * m
            /\ out.status = "ok"
            /\ out.raw[1] < m

\* C21: for odd N and t = a * b with a, b in [0, N), the sum t + m * N of
\* montgomery_reduction is below 2^(2W): storing it in the double-width
\* integer neither panics nor wraps.
C21_SumFits ==
    out.op = "montgomery_reduction" =>
        /\ out.raw[2] < RR
        /\ out.status = "ok"

====
